---------------------------- MODULE Spec2Model ----------------------------
(***************************************************************************)
(* A model of the results view of ReportOCR Pro: the value normalizer and  *)
(* transform pipeline (getFormattedValue), the text caser (toTitleCase),   *)
(* the table selection model and the export serializer of                  *)
(* src/components/ResultsView.tsx.                                         *)
(*                                                                         *)
(* Strings are sequences of one-character strings.  A JavaScript number is *)
(* a record [neg, m, e] standing for (-1)^neg * m * 10^e, kept canonical   *)
(* (m has no trailing zero, zero has e = 0), so that record equality is    *)
(* Object.is: +0 and -0 are different values, as they are for              *)
(* toLocaleString.  Every multiplier the control panel offers is a power   *)
(* of ten and every input of the model has a handful of digits, so the     *)
(* IEEE doubles of the program are the decimals of the model.              *)
(***************************************************************************)
EXTENDS Integers, Sequences, FiniteSets, TLC

VARIABLES
    data,             \* props.data.tables of ResultsView
    options,          \* props.options: the ProcessingOptions of App
    activeTableIndex, \* useState(0)
    viewMode,         \* useState(ViewMode.TABLE)
    selectedCells,    \* useState(new Set()): the ids, in insertion order
    effects,          \* the passive effects scheduled by the last commit
    written,          \* the text the last step gave to clipboard.writeText
    pending,          \* the writeText promise in flight
    copiedIds,        \* the ids of the copy whose promise is in flight
    thrown,           \* the last step ended in an uncaught TypeError
    lastOp,           \* the last handler that ran
    val,              \* the argument of getFormattedValue under test
    out,              \* what getFormattedValue returned for val
    ocrState,         \* App: useState<OcrState>
    selectedImages,   \* App: useState<File[]>
    request,          \* App: the handleProcess call in flight, if any
    response,         \* the response ocrState.data was adapted from
    imageInputs       \* the images ocrState.data was extracted from

viewVars == <<data, activeTableIndex, viewMode, selectedCells, effects,
              written, pending, copiedIds, thrown, lastOp>>
fmtVars == <<val, out>>
appVars == <<ocrState, selectedImages, request, response, imageInputs>>
vars == <<data, options, activeTableIndex, viewMode, selectedCells, effects,
          written, pending, copiedIds, thrown, lastOp, val, out, ocrState,
          selectedImages, request, response, imageInputs>>

(***************************************************************************)
(* Bounds of the model.                                                    *)
(***************************************************************************)
MaxLen == 3
MaxDecimals == 2
MaxSelected == 3
MaxPlaces == 101
MaxImages == 2

(***************************************************************************)
(* Values of the JavaScript runtime.  Every value carries its typeof.      *)
(***************************************************************************)
Undefined == [type |-> "undefined"]
Null == [type |-> "null"]
Nothing == [type |-> "nothing"]
NoOp == [op |-> "none", n |-> 0]
NaN == [type |-> "NaN"]
Str(s) == [type |-> "string", s |-> s]

Max(a, b) == IF a > b THEN a ELSE b

RECURSIVE Pow10(_)
Pow10(n) == IF n = 0 THEN 1 ELSE 10 * Pow10(n - 1)

DigitChars == <<"0", "1", "2", "3", "4", "5", "6", "7", "8", "9">>
Digits == {DigitChars[i] : i \in 1..10}
DigitVal(c) == CHOOSE d \in 0..9 : DigitChars[d + 1] = c

RECURSIVE Zeros(_)
Zeros(n) == IF n <= 0 THEN <<>> ELSE <<"0">> \o Zeros(n - 1)

\* String(n) for a non-negative integer n
RECURSIVE NatToStr(_)
NatToStr(n) ==
    IF n < 10 THEN <<DigitChars[n + 1]>>
    ELSE NatToStr(n \div 10) \o <<DigitChars[(n % 10) + 1]>>

\* the value of a string of decimal digits
RECURSIVE DigitsToNat(_)
DigitsToNat(s) ==
    IF s = <<>> THEN 0
    ELSE 10 * DigitsToNat(SubSeq(s, 1, Len(s) - 1)) + DigitVal(s[Len(s)])

AllDigits(s) == \A i \in 1..Len(s) : s[i] \in Digits

\* str.replace(/,/g, '')
RECURSIVE RemoveCommas(_)
RemoveCommas(s) ==
    IF s = <<>> THEN <<>>
    ELSE IF Head(s) = "," THEN RemoveCommas(Tail(s))
    ELSE <<Head(s)>> \o RemoveCommas(Tail(s))

\* str.trim(), the white space of the model being the space
RECURSIVE TrimLeft(_)
TrimLeft(s) ==
    IF s # <<>> /\ Head(s) = " " THEN TrimLeft(Tail(s)) ELSE s

RECURSIVE TrimRight(_)
TrimRight(s) ==
    IF s # <<>> /\ s[Len(s)] = " " THEN TrimRight(SubSeq(s, 1, Len(s) - 1))
    ELSE s

Trim(s) == TrimRight(TrimLeft(s))

\* parts.join(sep)
RECURSIVE Join(_, _)
Join(parts, sep) ==
    IF parts = <<>> THEN <<>>
    ELSE IF Len(parts) = 1 THEN parts[1]
    ELSE parts[1] \o sep \o Join(Tail(parts), sep)

\* str.split(sep) for a one-character separator
RECURSIVE SplitFrom(_, _, _)
SplitFrom(s, sep, cur) ==
    IF s = <<>> THEN <<cur>>
    ELSE IF Head(s) = sep THEN <<cur>> \o SplitFrom(Tail(s), sep, <<>>)
    ELSE SplitFrom(Tail(s), sep, Append(cur, Head(s)))

Split(s, sep) == SplitFrom(s, sep, <<>>)

(***************************************************************************)
(* Numbers.                                                                *)
(***************************************************************************)
RECURSIVE Canon(_, _, _)
Canon(neg, m, e) ==
    IF m = 0 THEN [type |-> "number", neg |-> neg, m |-> 0, e |-> 0]
    ELSE IF m % 10 = 0 THEN Canon(neg, m \div 10, e + 1)
    ELSE [type |-> "number", neg |-> neg, m |-> m, e |-> e]

\* -x
Negate(x) == [x EXCEPT !.neg = ~x.neg]

\* x !== 0
NonZero(x) == x.m # 0

\* x * 10^k: the multipliers of the unit selector are the powers of ten
Scale(x, k) == Canon(x.neg, x.m, x.e + k)

\* Number(str) for a string of digits, signs, points and white space: the
\* StringToNumber grammar without its exponent, Infinity and 0x/0o/0b forms,
\* which need letters
NumberOfDecimal(body, neg) ==
    LET parts == Split(body, ".")
        ip == parts[1]
        fp == IF Len(parts) = 2 THEN parts[2] ELSE <<>>
    IN  IF Len(parts) > 2 \/ ~AllDigits(ip) \/ ~AllDigits(fp)
           \/ (ip = <<>> /\ fp = <<>>)
        THEN NaN
        ELSE Canon(neg, DigitsToNat(ip \o fp), 0 - Len(fp))

ToNumber(str) ==
    LET t == Trim(str)
    IN  IF t = <<>> THEN Canon(FALSE, 0, 0)
        ELSE IF Head(t) = "-" THEN NumberOfDecimal(Tail(t), TRUE)
        ELSE IF Head(t) = "+" THEN NumberOfDecimal(Tail(t), FALSE)
        ELSE NumberOfDecimal(t, FALSE)

\* Math.round(x * 10000000000) / 10000000000: Math.round takes a tie
\* towards +Infinity and keeps the sign of a negative x that rounds to zero
CleanFloatDigits == 10

cleanFloat(x) ==
    IF x.e >= 0 - CleanFloatDigits THEN x
    ELSE LET drop == (0 - CleanFloatDigits) - x.e
             unit == Pow10(drop)
             q == x.m \div unit
             r == x.m % unit
             up == IF x.neg THEN 2 * r > unit ELSE 2 * r >= unit
         IN  Canon(x.neg, IF up THEN q + 1 ELSE q, 0 - CleanFloatDigits)

(***************************************************************************)
(* Number.prototype.toLocaleString(undefined, {minimumFractionDigits,      *)
(* maximumFractionDigits}) under the en-US conventions the program assumes *)
(* (it strips "," as the group separator): the value is rounded half away  *)
(* from zero to maxFD fraction digits, trailing fraction zeros are dropped *)
(* down to minFD digits, the integer part is grouped by three, and the     *)
(* sign is shown for every negative value, negative zero and a negative    *)
(* value that rounds to zero included (signDisplay "auto").                *)
(***************************************************************************)
RECURSIVE Group3(_)
Group3(ds) ==
    IF Len(ds) <= 3 THEN ds
    ELSE Group3(SubSeq(ds, 1, Len(ds) - 3)) \o <<",">>
         \o SubSeq(ds, Len(ds) - 2, Len(ds))

RECURSIVE DropTrailingZeros(_, _)
DropTrailingZeros(fs, minFD) ==
    IF Len(fs) > minFD /\ fs[Len(fs)] = "0"
    THEN DropTrailingZeros(SubSeq(fs, 1, Len(fs) - 1), minFD)
    ELSE fs

\* the digits of |x| rounded to fd fraction digits, as an integer count of
\* units of 10^-fd, written out
RoundedDigits(x, fd) ==
    IF x.e >= 0 - fd
    THEN IF x.m = 0 THEN <<"0">> ELSE NatToStr(x.m) \o Zeros(x.e + fd)
    ELSE LET drop == (0 - fd) - x.e
             unit == Pow10(drop)
             q == x.m \div unit
             r == x.m % unit
         IN  IF drop > 9 THEN <<"0">>  \* m < 2^31 < 5 * 10^9
             ELSE NatToStr(IF 2 * r >= unit THEN q + 1 ELSE q)

toLocaleString(x, minFD, maxFD) ==
    LET ds == RoundedDigits(x, maxFD)
        padded == Zeros(maxFD + 1 - Len(ds)) \o ds
        ip == SubSeq(padded, 1, Len(padded) - maxFD)
        fs == DropTrailingZeros(
                  SubSeq(padded, Len(padded) - maxFD + 1, Len(padded)), minFD)
    IN  (IF x.neg THEN <<"-">> ELSE <<>>) \o Group3(ip)
        \o (IF fs = <<>> THEN <<>> ELSE <<".">> \o fs)

(***************************************************************************)
(* toTitleCase.                                                            *)
(***************************************************************************)
LowerChars == <<"a", "b", "c", "d", "e", "f", "g", "h", "i", "j", "k", "l",
                "m", "n", "o", "p", "q", "r", "s", "t", "u", "v", "w", "x",
                "y", "z">>
UpperChars == <<"A", "B", "C", "D", "E", "F", "G", "H", "I", "J", "K", "L",
                "M", "N", "O", "P", "Q", "R", "S", "T", "U", "V", "W", "X",
                "Y", "Z">>

toLowerChar(c) ==
    IF \E i \in 1..26 : UpperChars[i] = c
    THEN LowerChars[CHOOSE i \in 1..26 : UpperChars[i] = c]
    ELSE c

toUpperChar(c) ==
    IF \E i \in 1..26 : LowerChars[i] = c
    THEN UpperChars[CHOOSE i \in 1..26 : LowerChars[i] = c]
    ELSE c

toLowerCase(s) == [i \in 1..Len(s) |-> toLowerChar(s[i])]
\* String.prototype.toUpperCase follows the full case mappings of Unicode:
\* the sharp s has no single capital and becomes "SS"
SharpS == "ß"
UpperOf(c) == IF c = SharpS THEN <<"S", "S">> ELSE <<toUpperChar(c)>>
toUpperCase(s) == Join([i \in 1..Len(s) |-> UpperOf(s[i])], <<>>)

minorWords ==
    { <<"o", "f">>, <<"a", "n", "d">>, <<"i", "n">>, <<"o", "n">>,
      <<"a", "t">>, <<"t", "o">>, <<"f", "o", "r">>, <<"b", "y">>,
      <<"w", "i", "t", "h">>, <<"a">>, <<"a", "n">>, <<"t", "h", "e">>,
      <<"o", "r">>, <<"n", "o", "r">> }

\* one word of str.split(' '), at 0-based position index
TitleWord(word, index) ==
    LET lower == toLowerCase(word)
    IN  IF index > 0 /\ lower \in minorWords THEN lower
        ELSE IF word = <<>> THEN <<>>
        ELSE toUpperCase(<<word[1]>>) \o toLowerCase(Tail(word))

toTitleCase(str) ==
    LET words == Split(str, " ")
    IN  Join([i \in 1..Len(words) |-> TitleWord(words[i], i - 1)], <<" ">>)

(***************************************************************************)
(* ProcessingOptions.  multiplier holds the exponent k of the selected     *)
(* multiplier 10^k; decimalPlaces = KeepAll is "keep all".                 *)
(***************************************************************************)
KeepAll == -1
DefaultDecimals == 2
MaxFractionDigits == 20
\* the largest minimumFractionDigits and maximumFractionDigits that
\* Intl.NumberFormat accepts (ECMA-402); a larger one is a RangeError
FractionDigitsLimit == 100
RangeError == [type |-> "RangeError"]
Multipliers == {0, -3, -6, -9, 3, 6, 9}

InitialOptions ==
    [multiplier |-> 0, decimalPlaces |-> DefaultDecimals,
     customInstruction |-> <<>>, forceNegative |-> FALSE,
     titleCase |-> FALSE]

(***************************************************************************)
(* getFormattedValue.                                                      *)
(***************************************************************************)
UndefinedText == <<"u", "n", "d", "e", "f", "i", "n", "e", "d">>

\* String(v) of a string or of undefined
ToStringOf(v) == IF v.type = "string" THEN v.s ELSE UndefinedText

startsWith(s, c) == s # <<>> /\ s[1] = c
endsWith(s, c) == s # <<>> /\ s[Len(s)] = c

\* Normalize without line 84: the parentheses are stripped and forgotten
NormalizeKeepsSign(v) ==
    IF v.type = "number" THEN [isNum |-> TRUE, numVal |-> v]
    ELSE LET trimmed == Trim(ToStringOf(v))
             isNegative == startsWith(trimmed, "(") /\ endsWith(trimmed, ")")
             inner == IF isNegative
                      THEN Trim(SubSeq(trimmed, 2, Len(trimmed) - 1))
                      ELSE trimmed
             cleaned == RemoveCommas(inner)
             n == ToNumber(cleaned)
         IN  IF cleaned = <<>> \/ n.type = "NaN"
             THEN [isNum |-> FALSE, numVal |-> NaN]
             ELSE [isNum |-> TRUE, numVal |-> n]

\* Normalize without the cleaned === '' test of line 74: Number('') is 0
NormalizeEmptyIsZero(v) ==
    IF v.type = "number" THEN [isNum |-> TRUE, numVal |-> v]
    ELSE LET trimmed == Trim(ToStringOf(v))
             isNegative == startsWith(trimmed, "(") /\ endsWith(trimmed, ")")
             inner == IF isNegative
                      THEN Trim(SubSeq(trimmed, 2, Len(trimmed) - 1))
                      ELSE trimmed
             n == ToNumber(RemoveCommas(inner))
         IN  IF n.type = "NaN"
             THEN [isNum |-> FALSE, numVal |-> NaN]
             ELSE [isNum |-> TRUE,
                   numVal |-> IF isNegative THEN Negate(n) ELSE n]

\* lines 56-87: [isNum, numVal] of a cell value
Normalize(v) ==
    IF v.type = "number" THEN [isNum |-> TRUE, numVal |-> v]
    ELSE LET trimmed == Trim(ToStringOf(v))
             isNegative == startsWith(trimmed, "(") /\ endsWith(trimmed, ")")
             inner == IF isNegative
                      THEN Trim(SubSeq(trimmed, 2, Len(trimmed) - 1))
                      ELSE trimmed
             cleaned == RemoveCommas(inner)
             n == ToNumber(cleaned)
         IN  IF cleaned = <<>> \/ n.type = "NaN"
             THEN [isNum |-> FALSE, numVal |-> NaN]
             ELSE [isNum |-> TRUE,
                   numVal |-> IF isNegative THEN Negate(n) ELSE n]

\* lines 91-97: scale, clean, force negative
Transform(numVal, opts) ==
    LET converted == cleanFloat(Scale(numVal, opts.multiplier))
    IN  IF opts.forceNegative /\ NonZero(converted)
        THEN [converted EXCEPT !.neg = TRUE]
        ELSE converted

\* lines 101-111: toLocaleString throws for fraction digits out of range
Render(converted, opts) ==
    IF opts.decimalPlaces = KeepAll
    THEN Str(toLocaleString(converted, 0, MaxFractionDigits))
    ELSE IF opts.decimalPlaces < 0 \/ opts.decimalPlaces > FractionDigitsLimit
    THEN RangeError
    ELSE Str(toLocaleString(converted, opts.decimalPlaces,
                            opts.decimalPlaces))

getFormattedValue(v, opts, returnNumber) ==
    LET norm == Normalize(v)
    IN  IF ~norm.isNum
        THEN IF opts.titleCase /\ v.type = "string"
             THEN Str(toTitleCase(v.s))
             ELSE v
        ELSE IF returnNumber THEN Transform(norm.numVal, opts)
        ELSE Render(Transform(norm.numVal, opts), opts)

formatValue(v, opts) == getFormattedValue(v, opts, FALSE)

formatHeader(header, opts) ==
    IF opts.titleCase THEN toTitleCase(header) ELSE header

(***************************************************************************)
(* ControlPanel: every control calls handleChange(key, value), and App     *)
(* renders the results again with the new options.                         *)
(***************************************************************************)
handleChange(key, value) == options' = [options EXCEPT ![key] = value]

isKeepAllDecimals == options.decimalPlaces = KeepAll

SelectMultiplier(k) == handleChange("multiplier", k)
ToggleForceNegative == handleChange("forceNegative", ~options.forceNegative)
ToggleTitleCase == handleChange("titleCase", ~options.titleCase)
ToggleKeepAll ==
    handleChange("decimalPlaces",
                 IF ~isKeepAllDecimals THEN KeepAll ELSE DefaultDecimals)
\* the "-" button without Math.max(0, ...)
DecrementDecimalsUnclamped ==
    handleChange("decimalPlaces", options.decimalPlaces - 1)
DecrementDecimals ==
    handleChange("decimalPlaces", Max(0, options.decimalPlaces - 1))
\* the textarea of the custom instructions
SetInstruction(text) == handleChange("customInstruction", text)
\* the "+" button has no upper limit; the model stops it at cap
IncrementDecimalsTo(cap) ==
    /\ options.decimalPlaces < cap
    /\ handleChange("decimalPlaces", options.decimalPlaces + 1)
IncrementDecimals == IncrementDecimalsTo(MaxDecimals)

(***************************************************************************)
(* The formatting of one cell value: a cell of the rendered table shows    *)
(* formatValue(val) for the current options, and is rendered again when    *)
(* the options change.                                                     *)
(***************************************************************************)
Alphabet == {"0", "5", ".", ",", "-", "(", ")", " "}
Strings(n) == UNION {[1..k -> Alphabet] : k \in 0..n}
Wrap(s) == <<"(">> \o s \o <<")">>
NumberValues ==
    {Canon(neg, m, e) : neg \in BOOLEAN, m \in {0, 5}, e \in {0, -1}}
InputValues ==
    {Str(s) : s \in Strings(MaxLen)}
    \cup {Str(Wrap(s)) : s \in Strings(MaxLen)}
    \cup NumberValues \cup {Undefined}
\* the multipliers tried on a cell: none, thousands, billions
CellMultipliers == {0, -3, -9}
\* the texts typed into the instructions: nothing, a blank, a number
Instructions == {<<>>, <<" ">>, <<"5">>}

Rendered(v, opts) ==
    [shown |-> formatValue(v, opts),
     number |-> getFormattedValue(v, opts, TRUE)]

\* App as it is constructed (lines 429-442)
InitialOcrState == [isLoading |-> FALSE, data |-> Null, error |-> Null]

\* the App around the view is left out of a specification: it stays as
\* constructed
AppAtRest ==
    /\ ocrState = InitialOcrState
    /\ selectedImages = <<>>
    /\ request = Null
    /\ response = Null
    /\ imageInputs = Null

\* no results view is mounted
ViewIdle ==
    /\ data = <<>>
    /\ activeTableIndex = 0
    /\ viewMode = "TABLE"
    /\ selectedCells = <<>>
    /\ effects = {}
    /\ written = Nothing
    /\ pending = "none"
    /\ copiedIds = <<>>
    /\ thrown = FALSE
    /\ lastOp = NoOp

FmtInit ==
    /\ val \in InputValues
    /\ options = InitialOptions
    /\ out = Rendered(val, options)
    /\ ViewIdle
    /\ AppAtRest

FmtStep(change) ==
    /\ change
    /\ out' = Rendered(val, options')
    /\ UNCHANGED <<val, viewVars, appVars>>

FmtNext ==
    \/ \E k \in CellMultipliers : FmtStep(SelectMultiplier(k))
    \/ FmtStep(ToggleForceNegative)
    \/ FmtStep(ToggleKeepAll)
    \/ FmtStep(DecrementDecimals)
    \/ FmtStep(IncrementDecimals)

FmtSpec == FmtInit /\ [][FmtNext]_vars

(***************************************************************************)
(* The formatting of a text cell: words, blanks, parentheses and commas    *)
(* around a digit, with the title case switch.                             *)
(***************************************************************************)
TextAlphabet == {"o", "f", "O", "F", SharpS, "5", " ", "(", ")", ","}
TextValues == {Str(s) : s \in UNION {[1..k -> TextAlphabet] : k \in 0..MaxLen}}

TextInit ==
    /\ val \in TextValues
    /\ options = InitialOptions
    /\ out = Rendered(val, options)
    /\ ViewIdle
    /\ AppAtRest

TextNext ==
    \/ FmtStep(ToggleTitleCase)
    \/ FmtStep(ToggleForceNegative)

TextSpec == TextInit /\ [][TextNext]_vars

(***************************************************************************)
(* The decimal places control on its own: a few cell values, and the "+"   *)
(* button pressed as often as MaxPlaces allows.                            *)
(***************************************************************************)
PlacesValues ==
    { Str(<<"5">>), Str(<<"(", "5", ".", "5", ")">>),
      Str(<<"5", ",", "0", "5", "0">>), Canon(FALSE, 5, -2) }

PlacesInit ==
    /\ val \in PlacesValues
    /\ options = InitialOptions
    /\ out = Rendered(val, options)
    /\ ViewIdle
    /\ AppAtRest

PlacesNext ==
    \/ FmtStep(ToggleKeepAll)
    \/ FmtStep(DecrementDecimals)
    \/ FmtStep(IncrementDecimalsTo(MaxPlaces))
    \/ FmtStep(ToggleForceNegative)

PlacesSpec == PlacesInit /\ [][PlacesNext]_vars

(***************************************************************************)
(* The tables given to the results view.  A row maps header names to cell  *)
(* values (Record<string, string | number>) and may lack a header's key.   *)
(***************************************************************************)
Lookup(row, key) == IF key \in DOMAIN row THEN row[key] ELSE Undefined

HNetOf == <<"N", "E", "T", " ", "O", "F">>
HQ1 == <<"q", "1">>
HOf == <<"o", "f">>

TableA ==
    [headers |-> <<HNetOf, HQ1>>,
     rows |-> << (HNetOf :> Str(<<"(", "1", ",", "0", "5", "0", ".", "5", ")">>)
                  @@ HQ1 :> Str(<<"1", ",", "0", "0", "0">>)),
                 (HNetOf :> Str(<<"n", "/", "a">>)
                  @@ HQ1 :> Canon(FALSE, 5, 0)) >>]

\* one row, which has no value for its last header
TableB ==
    [headers |-> <<HOf, HQ1, HNetOf>>,
     rows |-> << (HOf :> Str(<<"0">>) @@ HQ1 :> Str(<<"(", "5", ")">>)) >>]

\* headers and no row
TableC == [headers |-> <<HQ1>>, rows |-> <<>>]

SampleData == { <<>>, <<TableA>>, <<TableA, TableB>>, <<TableC>> }

SetMax(S) == CHOOSE m \in S : \A x \in S : x <= m
SampleTables == UNION {{d[i] : i \in 1..Len(d)} : d \in SampleData}
TableIndexes == 0..(SetMax({Len(d) : d \in SampleData}) - 1)
RowIndexes == 0..(SetMax({Len(tb.rows) : tb \in SampleTables}) - 1)
ColIndexes == 0..(SetMax({Len(tb.headers) : tb \in SampleTables}) - 1)

\* data.tables[activeTableIndex], 0-based
HasActiveTable == activeTableIndex < Len(data)
activeTable == data[activeTableIndex + 1]

(***************************************************************************)
(* Cell ids: `${rowIdx}-${colIdx}`, read back by split('-').map(Number).   *)
(***************************************************************************)
CellId(r, c) == NatToStr(r) \o <<"-">> \o NatToStr(c)

NumberToInt(x) == x.m * Pow10(x.e)

IdPart(id, i) == NumberToInt(ToNumber(Split(id, "-")[i]))
IdRow(id) == IdPart(id, 1)
IdCol(id) == IdPart(id, 2)

Has(set, id) == \E i \in 1..Len(set) : set[i] = id
Delete(set, id) == SelectSeq(set, LAMBDA x : x # id)

\* the comparator of handleCopySelected
CompareIds(a, b) ==
    IF IdRow(a) # IdRow(b) THEN IdRow(a) - IdRow(b) ELSE IdCol(a) - IdCol(b)

\* Array.prototype.sort with that comparator
RECURSIVE InsertSorted(_, _)
InsertSorted(sorted, id) ==
    IF sorted = <<>> THEN <<id>>
    ELSE IF CompareIds(id, Head(sorted)) < 0 THEN <<id>> \o sorted
    ELSE <<Head(sorted)>> \o InsertSorted(Tail(sorted), id)

\* the selection in insertion order, as Array.from gives it
SortIdsUnsorted(ids) == ids

RECURSIVE SortIds(_)
SortIds(ids) ==
    IF ids = <<>> THEN <<>>
    ELSE InsertSorted(SortIds(SubSeq(ids, 1, Len(ids) - 1)), ids[Len(ids)])

(***************************************************************************)
(* The export serializer and the handlers of ResultsView.  A handler runs  *)
(* in the last committed render, sets state, and React commits the next    *)
(* render; the passive effects whose dependencies changed in that commit   *)
(* are scheduled and run later (FlushEffects).  A click is dispatched to a  *)
(* settled view (Settled): React runs the effects of a click's own commit  *)
(* in the task of the click, and the data of a mounted view changes only   *)
(* by a render of the parent, whose effects React runs before it handles   *)
(* the next click.  Promise callbacks and parent renders come at any time. *)
(***************************************************************************)
Settled == effects = {}

TAB == <<"\t">>
NL == <<"\n">>

\* the export without the replace of the commas
ExportValueKeepsCommas(rawVal, opts) == ToStringOf(formatValue(rawVal, opts))

\* String(getFormattedValue(rawVal)).replace(/,/g, '')
ExportValue(rawVal, opts) == RemoveCommas(ToStringOf(formatValue(rawVal, opts)))

\* activeTable.headers[c]
HeaderAt(table, c) ==
    IF c < Len(table.headers) THEN table.headers[c + 1] ELSE UndefinedText

\* lines 157-162: does rows[r][header] read a row the table has not
SelectionThrows(table, ids) ==
    \E i \in 1..Len(ids) : IdRow(ids[i]) >= Len(table.rows)

SelectedValues(table, ids, opts) ==
    [i \in 1..Len(ids) |->
        ExportValue(Lookup(table.rows[IdRow(ids[i]) + 1],
                           HeaderAt(table, IdCol(ids[i]))), opts)]

\* lines 174-184: the text handed to the clipboard by handleCopyTable
TableText(table, opts) ==
    LET headersToExport ==
            [i \in 1..Len(table.headers) |-> formatHeader(table.headers[i], opts)]
        headerRow == Join(headersToExport, TAB)
        bodyRows ==
            Join([r \in 1..Len(table.rows) |->
                     Join([c \in 1..Len(table.headers) |->
                              ExportValue(Lookup(table.rows[r], table.headers[c]),
                                          opts)], TAB)], NL)
    IN  headerRow \o NL \o bodyRows

\* a toggle that only ever adds
ToggledSetAddOnly(set, id) == IF Has(set, id) THEN set ELSE Append(set, id)

\* lines 136-142: the new Set
ToggledSet(set, id) == IF Has(set, id) THEN Delete(set, id) ELSE Append(set, id)

\* the cell (r, c) is rendered and can be clicked
CellShown(r, c) ==
    /\ HasActiveTable
    /\ viewMode = "TABLE"
    /\ r < Len(activeTable.rows)
    /\ c < Len(activeTable.headers)

toggleCellSelection(r, c) ==
    /\ Settled
    /\ CellShown(r, c)
    /\ Has(selectedCells, CellId(r, c)) \/ Len(selectedCells) < MaxSelected
    /\ selectedCells' = ToggledSet(selectedCells, CellId(r, c))
    /\ written' = Nothing
    /\ thrown' = FALSE
    /\ lastOp' = [op |-> "toggle",
                  n |-> IF Has(selectedCells, CellId(r, c)) THEN 0 ELSE 1]
    /\ UNCHANGED <<data, options, activeTableIndex, viewMode, effects,
                   pending, copiedIds, fmtVars, appVars>>

\* the tab of table idx is clicked (lines 196-201)
setActiveTableIndex(idx) ==
    /\ Settled
    /\ HasActiveTable
    /\ Len(data) > 1
    /\ idx < Len(data)
    /\ activeTableIndex' = idx
    /\ effects' = IF idx # activeTableIndex
                  THEN effects \cup {"activeTableIndex"} ELSE effects
    /\ written' = Nothing
    /\ thrown' = FALSE
    /\ lastOp' = IF idx # activeTableIndex
                 THEN [op |-> "switch", n |-> Len(selectedCells)] ELSE NoOp
    /\ UNCHANGED <<data, options, viewMode, selectedCells, pending, copiedIds,
                   fmtVars, appVars>>

\* a view mode switch that also drops the selection
setViewModeClears(mode) ==
    /\ Settled
    /\ HasActiveTable
    /\ viewMode' = mode
    /\ selectedCells' = <<>>
    /\ written' = Nothing
    /\ thrown' = FALSE
    /\ lastOp' = NoOp
    /\ UNCHANGED <<data, options, activeTableIndex, effects, pending, copiedIds,
                   fmtVars, appVars>>

setViewMode(mode) ==
    /\ Settled
    /\ HasActiveTable
    /\ viewMode' = mode
    /\ written' = Nothing
    /\ thrown' = FALSE
    /\ lastOp' = NoOp
    /\ UNCHANGED <<data, options, activeTableIndex, selectedCells, effects,
                   pending, copiedIds, fmtVars, appVars>>

\* the parent renders the view with another ExtractedData
DataReplaced(d) ==
    /\ data' = d
    /\ effects' = effects \cup {"data"}
    /\ written' = Nothing
    /\ thrown' = FALSE
    /\ lastOp' = [op |-> "data", n |-> Len(selectedCells)]
    /\ UNCHANGED <<options, activeTableIndex, viewMode, selectedCells,
                   pending, copiedIds, fmtVars, appVars>>

\* the data effect without setSelectedCells(new Set())
DataEffectKeepsSelection(st) == [st EXCEPT !.index = 0]
\* the data effect without setActiveTableIndex(0)
DataEffectKeepsIndex(st) == [st EXCEPT !.selected = <<>>]
\* the index effect without setSelectedCells(new Set())
ActiveTableEffectKeepsSelection(st) == st

\* lines 33-36
DataEffect(st) == [index |-> 0, selected |-> <<>>]
\* lines 39-41
ActiveTableEffect(st) == [st EXCEPT !.selected = <<>>]

EffectsResult ==
    LET st0 == [index |-> activeTableIndex, selected |-> selectedCells]
        st1 == IF "data" \in effects THEN DataEffect(st0) ELSE st0
    IN  IF "activeTableIndex" \in effects THEN ActiveTableEffect(st1) ELSE st1

\* the scheduled effects run, and the render they cause is committed
FlushEffects ==
    /\ effects # {}
    /\ activeTableIndex' = EffectsResult.index
    /\ selectedCells' = EffectsResult.selected
    /\ effects' = IF EffectsResult.index # activeTableIndex
                  THEN {"activeTableIndex"} ELSE {}
    /\ written' = Nothing
    /\ thrown' = FALSE
    /\ UNCHANGED <<data, options, viewMode, pending, copiedIds, lastOp, fmtVars, appVars>>

handleCopySelected ==
    /\ Settled
    /\ pending = "none"
    /\ IF ~HasActiveTable
       THEN written' = Nothing /\ thrown' = FALSE /\ UNCHANGED <<pending, copiedIds>>
       ELSE LET sortedIds == SortIds(selectedCells)
            IN  IF SelectionThrows(activeTable, sortedIds)
                THEN thrown' = TRUE /\ written' = Nothing /\ UNCHANGED <<pending, copiedIds>>
                ELSE /\ written' =
                          Str(Join(SelectedValues(activeTable, sortedIds,
                                                  options), NL))
                     /\ pending' = "selected"
                     /\ copiedIds' = sortedIds
                     /\ thrown' = FALSE
    /\ lastOp' = [op |-> "copySelected", n |-> Len(selectedCells)]
    /\ UNCHANGED <<data, options, activeTableIndex, viewMode, selectedCells,
                   effects, fmtVars, appVars>>

\* handleCopyTable without line 171: activeTable.headers of an absent table
\* raises a TypeError
handleCopyTableUnguarded ==
    /\ Settled
    /\ pending = "none"
    /\ IF ~HasActiveTable
       THEN written' = Nothing /\ thrown' = TRUE /\ UNCHANGED <<pending, copiedIds>>
       ELSE /\ written' = Str(TableText(activeTable, options))
            /\ pending' = "table"
            /\ copiedIds' = <<>>
            /\ thrown' = FALSE
    /\ lastOp' = [op |-> "copyTable", n |-> Len(selectedCells)]
    /\ UNCHANGED <<data, options, activeTableIndex, viewMode, selectedCells,
                   effects, fmtVars, appVars>>

handleCopyTable ==
    /\ Settled
    /\ pending = "none"
    /\ IF ~HasActiveTable
       THEN written' = Nothing /\ UNCHANGED <<pending, copiedIds>>
       ELSE /\ written' = Str(TableText(activeTable, options))
            /\ pending' = "table"
            /\ copiedIds' = <<>>
    /\ thrown' = FALSE
    /\ lastOp' = [op |-> "copyTable", n |-> Len(selectedCells)]
    /\ UNCHANGED <<data, options, activeTableIndex, viewMode, selectedCells,
                   effects, fmtVars, appVars>>

\* the promise of writeText resolves: the then callbacks of lines 164-167
\* and 184-186
ClipboardResolved ==
    /\ pending # "none"
    /\ pending' = "none"
    /\ copiedIds' = <<>>
    /\ selectedCells' = IF pending = "selected" THEN <<>> ELSE selectedCells
    /\ written' = Nothing
    /\ thrown' = FALSE
    /\ lastOp' = [op |-> "copied", n |-> 0]
    /\ UNCHANGED <<data, options, activeTableIndex, viewMode, effects,
                   fmtVars, appVars>>

\* the promise rejects: no callback is attached
ClipboardRejected ==
    /\ pending # "none"
    /\ pending' = "none"
    /\ copiedIds' = <<>>
    /\ written' = Nothing
    /\ thrown' = FALSE
    /\ lastOp' = NoOp
    /\ UNCHANGED <<data, options, activeTableIndex, viewMode, selectedCells,
                   effects, fmtVars, appVars>>

\* a control of the panel changes the options while the view is shown
OptionsChanged(change) ==
    /\ Settled
    /\ change
    /\ written' = Nothing
    /\ thrown' = FALSE
    /\ lastOp' = NoOp
    /\ out' = Rendered(val, options')
    /\ UNCHANGED <<data, activeTableIndex, viewMode, selectedCells, effects,
                   pending, copiedIds, val, appVars>>

\* the results view is mounted with some data, its two effects scheduled
Init ==
    /\ data \in SampleData
    /\ options = InitialOptions
    /\ activeTableIndex = 0
    /\ viewMode = "TABLE"
    /\ selectedCells = <<>>
    /\ effects = {"data", "activeTableIndex"}
    /\ written = Nothing
    /\ pending = "none"
    /\ copiedIds = <<>>
    /\ thrown = FALSE
    /\ lastOp = NoOp
    /\ val = Undefined
    /\ out = Rendered(val, options)
    /\ AppAtRest

Next ==
    \/ \E r \in RowIndexes, c \in ColIndexes : toggleCellSelection(r, c)
    \/ \E idx \in TableIndexes : setActiveTableIndex(idx)
    \/ \E mode \in {"TABLE", "LIST"} : setViewMode(mode)
    \/ \E d \in SampleData : DataReplaced(d)
    \/ FlushEffects
    \/ handleCopySelected
    \/ handleCopyTable
    \/ ClipboardResolved
    \/ ClipboardRejected
    \/ OptionsChanged(ToggleTitleCase)

Spec == Init /\ [][Next]_vars

(***************************************************************************)
(* processImages and App.  handleProcess sets the loading state, awaits    *)
(* the file reads and processImages, and sets the result or the error; the *)
(* image handlers run while it waits.  App renders ResultsView exactly     *)
(* when ocrState.data is set (lines 558-574).                              *)
(***************************************************************************)
\* line 159: the value of the row at a 0-based position, or ""
RowValue(row, index) ==
    IF row.values.type = "array" /\ index < Len(row.values.items)
    THEN row.values.items[index + 1]
    ELSE Str(<<>>)

\* lines 155-161: table.headers.forEach over a rowObject
RECURSIVE forEachHeader(_, _, _, _)
forEachHeader(rowObject, headers, row, index) ==
    IF index >= Len(headers) THEN rowObject
    ELSE forEachHeader((headers[index + 1] :> RowValue(row, index))
                           @@ rowObject,
                       headers, row, index + 1)

\* lines 152-170 (title and summary are copied and play no part here)
processedTables(tables) ==
    [t \in 1..Len(tables) |->
        [headers |-> tables[t].headers,
         rows |-> [r \in 1..Len(tables[t].rows) |->
                      forEachHeader(<<>>, tables[t].headers,
                                    tables[t].rows[r], 0)]]]

\* the responses of the model: the JSON of rawData.tables
Values(items) == [type |-> "array", items |-> items]
RawHeaders ==
    { <<>>, <<HQ1>>, <<HQ1, HOf>>, <<HOf, HQ1>>, <<HQ1, HQ1>> }
RawRows ==
    { [values |-> Undefined], [values |-> Values(<<>>)],
      [values |-> Values(<<Str(<<"5">>)>>)],
      [values |-> Values(<<Str(<<"5">>), Str(<<"(", "0", ")">>)>>)],
      [values |-> Values(<<Str(<<"5">>), Str(<<>>), Str(<<"0">>)>>)] }
RawTables ==
    { [headers |-> h, rows |-> rs] :
          h \in RawHeaders, rs \in {<<>>} \cup {<<row>> : row \in RawRows} }
RawResponses == {<<>>} \cup {<<table>> : table \in RawTables}

Files == {"f1", "f2"}
ErrorMessage == Str(<<"e", "r", "r", "o", "r">>)
Extracted(tables) == [type |-> "data", tables |-> tables]

\* what the commit of an ocrState with this data does to the results view:
\* unmounted without data, mounted afresh with it
RenderResults(newData) ==
    /\ IF newData = Null
       THEN /\ data' = <<>>
            /\ activeTableIndex' = 0
            /\ viewMode' = "TABLE"
            /\ selectedCells' = <<>>
            /\ effects' = {}
       ELSE IF ocrState.data = Null
       THEN /\ data' = newData.tables
            /\ activeTableIndex' = 0
            /\ viewMode' = "TABLE"
            /\ selectedCells' = <<>>
            /\ effects' = {"data", "activeTableIndex"}
       ELSE /\ data' = newData.tables
            /\ effects' = effects \cup {"data"}
            /\ UNCHANGED <<activeTableIndex, viewMode, selectedCells>>
    /\ written' = Nothing
    /\ pending' = "none"
    /\ copiedIds' = <<>>
    /\ thrown' = FALSE
    /\ lastOp' = NoOp

\* lines 447-451 and 456, 461: the reset of the image handlers
ResetData == [ocrState EXCEPT !.data = Null, !.error = Null]

\* lines 444-452
handleImagesSelected(files) ==
    /\ Len(selectedImages) + Len(files) <= MaxImages
    /\ selectedImages' = selectedImages \o files
    /\ IF ocrState.data # Null
       THEN /\ ocrState' = ResetData
            /\ response' = Null
            /\ imageInputs' = Null
            /\ RenderResults(Null)
       ELSE UNCHANGED <<ocrState, response, imageInputs, viewVars>>
    /\ UNCHANGED <<options, request, fmtVars>>

\* lines 454-457
handleRemoveImage(index) ==
    /\ index < Len(selectedImages)
    /\ selectedImages' =
           SubSeq(selectedImages, 1, index)
           \o SubSeq(selectedImages, index + 2, Len(selectedImages))
    /\ ocrState' = ResetData
    /\ response' = Null
    /\ imageInputs' = Null
    /\ RenderResults(Null)
    /\ UNCHANGED <<options, request, fmtVars>>

\* lines 459-462
handleClearAll ==
    /\ selectedImages' = <<>>
    /\ ocrState' = ResetData
    /\ response' = Null
    /\ imageInputs' = Null
    /\ RenderResults(Null)
    /\ UNCHANGED <<options, request, fmtVars>>

\* ControlPanel line 49
hasContent == selectedImages # <<>> \/ Trim(options.customInstruction) # <<>>

\* handleProcess up to its first await with the data kept: line 468 as
\* setOcrState(prev => ({ ...prev, isLoading: true }))
handleProcessKeepsData ==
    /\ hasContent /\ ~ocrState.isLoading
    /\ request = Null
    /\ ocrState' = [ocrState EXCEPT !.isLoading = TRUE]
    /\ request' = [images |-> selectedImages,
                   instruction |-> options.customInstruction]
    /\ UNCHANGED <<response, imageInputs, viewVars, options, selectedImages,
                   fmtVars>>

\* the Process button (ControlPanel lines 146-148): handleProcess up to
\* its first await (lines 464-468)
handleProcess ==
    /\ hasContent /\ ~ocrState.isLoading
    /\ request = Null
    /\ ocrState' = [isLoading |-> TRUE, data |-> Null, error |-> Null]
    /\ request' = [images |-> selectedImages,
                   instruction |-> options.customInstruction]
    /\ response' = Null
    /\ imageInputs' = Null
    /\ RenderResults(Null)
    /\ UNCHANGED <<options, selectedImages, fmtVars>>

\* processImages returns (lines 491-496)
ProcessResolved(tables) ==
    /\ request # Null
    /\ ocrState' = [isLoading |-> FALSE,
                    data |-> Extracted(processedTables(tables)),
                    error |-> Null]
    /\ request' = Null
    /\ response' = tables
    /\ imageInputs' = request.images
    /\ RenderResults(ocrState'.data)
    /\ UNCHANGED <<options, selectedImages, fmtVars>>

\* a file read or processImages throws (lines 498-505)
ProcessRejected ==
    /\ request # Null
    /\ ocrState' = [isLoading |-> FALSE, data |-> Null,
                    error |-> ErrorMessage]
    /\ request' = Null
    /\ response' = Null
    /\ imageInputs' = Null
    /\ RenderResults(Null)
    /\ UNCHANGED <<options, selectedImages, fmtVars>>

\* the effects of a mounted view run
ViewEffects == FlushEffects

AppInit ==
    /\ options = InitialOptions
    /\ val = Undefined
    /\ out = Rendered(val, options)
    /\ ViewIdle
    /\ AppAtRest

AppNext ==
    \/ \E file \in Files : handleImagesSelected(<<file>>)
    \/ \E index \in 0..(MaxImages - 1) : handleRemoveImage(index)
    \/ handleClearAll
    \/ \E text \in Instructions : OptionsChanged(SetInstruction(text))
    \/ handleProcess
    \/ \E tables \in RawResponses : ProcessResolved(tables)
    \/ ProcessRejected
    \/ ViewEffects

AppSpec == AppInit /\ [][AppNext]_vars

(***************************************************************************)
(* The view of two tables with every control of the panel: the selection   *)
(* and the table tabs on one side, the ProcessingOptions and the view mode *)
(* on the other.                                                           *)
(***************************************************************************)
PanelInit == Init /\ data = <<TableA, TableB>>

PanelNext ==
    \/ \E r \in RowIndexes, c \in ColIndexes : toggleCellSelection(r, c)
    \/ \E idx \in TableIndexes : setActiveTableIndex(idx)
    \/ \E mode \in {"TABLE", "LIST"} : setViewMode(mode)
    \/ FlushEffects
    \/ \E k \in CellMultipliers : OptionsChanged(SelectMultiplier(k))
    \/ OptionsChanged(ToggleForceNegative)
    \/ OptionsChanged(ToggleTitleCase)
    \/ OptionsChanged(ToggleKeepAll)
    \/ OptionsChanged(DecrementDecimals)
    \/ OptionsChanged(IncrementDecimals)
    \/ \E text \in Instructions : OptionsChanged(SetInstruction(text))

PanelSpec == PanelInit /\ [][PanelNext]_vars

(***************************************************************************)
(* Properties of the selection model and the export serializer, verified  *)
(* under Spec.                                                             *)
(***************************************************************************)
SetOf(seq) == {seq[i] : i \in 1..Len(seq)}

\* C1: once the active table index has changed to another table and the
\* effect of the change has run, no cell is selected.
C1_SwitchClearsSelection ==
    (lastOp.op = "switch" /\ effects = {}) => selectedCells = <<>>

\* a table was left with cells selected, and the switch has taken effect
C1_Witness ==
    /\ lastOp.op = "switch"
    /\ lastOp.n > 0
    /\ effects = {}
    /\ HasActiveTable

\* C2: once the data has been replaced and the effects of the replacement
\* have run, no cell is selected and the active table index is 0.
C2_DataReplacedResets ==
    (lastOp.op = "data" /\ effects = {})
        => (selectedCells = <<>> /\ activeTableIndex = 0)

\* the data was replaced with cells selected in a table other than the
\* first, and the data effect has run (the index moved, so the index effect
\* is scheduled again)
C2_Witness ==
    /\ lastOp.op = "data"
    /\ lastOp.n > 0
    /\ effects = {"activeTableIndex"}
    /\ activeTableIndex = 0
    /\ selectedCells = <<>>

\* C3: a toggle of cell (r, c) flips the membership of its id, leaves the
\* membership of every other id as it was, and a second toggle of the same
\* cell gives back the set of before.
C3_ToggleFlipsMembership ==
    [][\A r \in RowIndexes, c \in ColIndexes :
          toggleCellSelection(r, c) =>
              /\ Has(selectedCells', CellId(r, c))
                     <=> ~Has(selectedCells, CellId(r, c))
              /\ \A r2 \in RowIndexes, c2 \in ColIndexes :
                     <<r2, c2>> # <<r, c>> =>
                         (Has(selectedCells', CellId(r2, c2))
                              <=> Has(selectedCells, CellId(r2, c2)))
              /\ SetOf(ToggledSet(selectedCells', CellId(r, c)))
                     = SetOf(selectedCells)]_vars

\* a cell was deselected while another stayed selected
C3_Witness ==
    /\ lastOp = [op |-> "toggle", n |-> 0]
    /\ selectedCells # <<>>

\* the ids of the grid in reading order: rows ascending, then columns
GridIds ==
    LET nc == Cardinality(ColIndexes)
    IN  [k \in 1..(Cardinality(RowIndexes) * nc) |->
            CellId((k - 1) \div nc, (k - 1) % nc)]

\* the selected ids in reading order
SelectedInReadingOrder == SelectSeq(GridIds, LAMBDA id : Has(selectedCells, id))

\* the value copy-selection exports for cell id of table tb
CellExport(tb, id, opts) ==
    RemoveCommas(ToStringOf(formatValue(
        Lookup(tb.rows[IdRow(id) + 1], HeaderAt(tb, IdCol(id))), opts)))

\* C4: the text copy-selection writes holds one line per selected cell, the
\* cells taken by row and then by column, whatever their insertion order.
C4_CopySelectedSorted ==
    (lastOp.op = "copySelected" /\ written # Nothing) =>
        LET ids == SelectedInReadingOrder
            lines == [i \in 1..Len(ids) |-> CellExport(activeTable, ids[i], options)]
        IN  /\ Len(ids) = Len(selectedCells)
            /\ written = Str(Join(lines, NL))
            /\ ids # <<>> => Split(written.s, "\n") = lines

\* the cells (1,1), (0,0), (0,1) of table A, selected in that order, are
\* written as (0,0), (0,1), (1,1)
C4_Witness ==
    /\ lastOp.op = "copySelected"
    /\ data = <<TableA>>
    /\ selectedCells = <<CellId(1, 1), CellId(0, 0), CellId(0, 1)>>
    /\ written = Str(<<"-", "1", "0", "5", "0", ".", "5", "0", "\n",
                       "1", "0", "0", "0", ".", "0", "0", "\n",
                       "5", ".", "0", "0">>)

\* C5: with no table at the active index, both copy handlers write nothing,
\* raise nothing and leave the selection and every other state as it is.
C5_NoTableNoCopy ==
    [][((handleCopySelected \/ handleCopyTable) /\ ~HasActiveTable) =>
          /\ written' = Nothing
          /\ thrown' = FALSE
          /\ UNCHANGED <<data, options, activeTableIndex, viewMode,
                         selectedCells, effects, pending>>]_vars

\* copy-selection ran on a view without tables
C5_Witness ==
    /\ lastOp.op = "copySelected"
    /\ data = <<>>
    /\ ~HasActiveTable
    /\ written = Nothing
    /\ pending = "none"
    /\ ~thrown

\* C6: the text copy-table writes is the header line (the headers in order,
\* title-cased iff titleCase is on, joined by tabs), a newline, and one line
\* per row in order, joined by newlines; a row line holds one field per
\* header in order, joined by tabs, each the formatted value without commas.
C6_CopyTableText ==
    (lastOp.op = "copyTable" /\ written # Nothing) =>
        LET tb == activeTable
            nr == Len(tb.rows)
            nh == Len(tb.headers)
            lines == Split(written.s, "\n")
            shownHeader(h) == IF options.titleCase THEN toTitleCase(h) ELSE h
            field(r, c) ==
                RemoveCommas(ToStringOf(
                    formatValue(Lookup(tb.rows[r], tb.headers[c]), options)))
        IN  /\ Len(lines) = 1 + Max(nr, 1)
            /\ Split(lines[1], "\t") = [c \in 1..nh |-> shownHeader(tb.headers[c])]
            /\ nr = 0 => lines[2] = <<>>
            /\ \A r \in 1..nr :
                   Split(lines[r + 1], "\t") = [c \in 1..nh |-> field(r, c)]

\* table A was copied with titleCase on
C6_Witness ==
    /\ lastOp.op = "copyTable"
    /\ options.titleCase
    /\ data = <<TableA>>
    /\ written = Str(<<"N", "e", "t", " ", "o", "f", "\t", "Q", "1", "\n",
                       "-", "1", "0", "5", "0", ".", "5", "0", "\t",
                       "1", "0", "0", "0", ".", "0", "0", "\n",
                       "N", "/", "a", "\t", "5", ".", "0", "0">>)

IsNumeric(v) == Normalize(v).isNum

\* every digit of the text is a zero
AllZeroDigits(s) == \A i \in 1..Len(s) : s[i] \in Digits => s[i] = "0"

\* C8: with forceNegative on and k >= 0 decimal places, a numeric value
\* whose display has only zero digits is shown without a minus sign.
C8_NoNegativeZero ==
    (/\ options.forceNegative
     /\ options.decimalPlaces >= 0
     /\ IsNumeric(val)
     /\ AllZeroDigits(out.shown.s))
        => ~startsWith(out.shown.s, "-")

\* the text has no sign of its own: no minus, no plus, no parenthesis
Unsigned(s) == \A i \in 1..Len(s) : s[i] \notin {"-", "+", "(", ")"}

\* the text between the first and the last character
Unwrap(s) == SubSeq(s, 2, Len(s) - 1)

IsWrapped(v) ==
    /\ v.type = "string"
    /\ Len(v.s) >= 2
    /\ v.s[1] = "("
    /\ v.s[Len(v.s)] = ")"

\* C9: for a numeric text s without a sign, "(" + s + ")" normalizes to the
\* negation of what s normalizes to, and the number the cell yields is the
\* transform of that negation.
C9_ParenthesesNegate ==
    (IsWrapped(val) /\ Unsigned(Unwrap(val.s)) /\ IsNumeric(Str(Unwrap(val.s))))
        => LET plain == Normalize(Str(Unwrap(val.s))).numVal
           IN  /\ Normalize(val) = [isNum |-> TRUE, numVal |-> Negate(plain)]
               /\ out.number = Transform(Negate(plain), options)

\* "(5,0)" in thousands is shown as minus five hundredths
C9_Witness ==
    /\ val = Str(<<"(", "5", ",", "0", ")">>)
    /\ options = [InitialOptions EXCEPT !.multiplier = -3]
    /\ out.number = Canon(TRUE, 5, -2)
    /\ out.shown = Str(<<"-", "0", ".", "0", "5">>)

\* C10: a parenthesized text whose content carries a leading minus and is a
\* non-zero number normalizes to a negative number.
C10_NoDoubleNegation ==
    (/\ IsWrapped(val)
     /\ startsWith(Trim(Unwrap(val.s)), "-")
     /\ IsNumeric(Str(Unwrap(val.s)))
     /\ NonZero(Normalize(Str(Unwrap(val.s))).numVal))
        => /\ Normalize(val).isNum
           /\ Normalize(val).numVal.neg

\* the number of characters after the decimal point, 0 without a point
FractionLength(s) ==
    IF \E i \in 1..Len(s) : s[i] = "."
    THEN Len(s) - (CHOOSE i \in 1..Len(s) : s[i] = ".")
    ELSE 0

\* C11: a numeric value is rendered, for every decimalPlaces k >= 0 the
\* controls reach, as a text with exactly k fraction digits (and no decimal
\* point when k = 0), and the rendering raises no error.
C11_ExactFractionDigits ==
    (IsNumeric(val) /\ options.decimalPlaces >= 0) =>
        /\ out.shown.type = "string"
        /\ FractionLength(out.shown.s) = options.decimalPlaces
        /\ options.decimalPlaces = 0 =>
               \A i \in 1..Len(out.shown.s) : out.shown.s[i] # "."

\* C20: decimalPlaces is always the sentinel -1 or an integer >= 0, and a
\* press of the "-" button never gives a value below 0.
C20_DecimalPlacesDomain ==
    /\ [](options.decimalPlaces = KeepAll \/ options.decimalPlaces \in Nat)
    /\ [][DecrementDecimals => options'.decimalPlaces >= 0]_vars

\* the "-" button was pressed down to 0 and keep-all is off
C20_Witness ==
    /\ options.decimalPlaces = 0
    /\ out.shown = Str(<<"-", "6">>)

\* |x| written out in full: no sign, no grouping, no rounding
PlainDigits(x) ==
    IF x.e >= 0
    THEN IF x.m = 0 THEN <<"0">> ELSE NatToStr(x.m) \o Zeros(x.e)
    ELSE LET ds == NatToStr(x.m)
             padded == Zeros((0 - x.e) + 1 - Len(ds)) \o ds
         IN  SubSeq(padded, 1, Len(padded) + x.e) \o <<".">>
             \o SubSeq(padded, Len(padded) + x.e + 1, Len(padded))

\* the digits and the decimal point of a text
DigitsOf(s) == SelectSeq(s, LAMBDA c : c \in Digits \cup {"."})

\* C12: with decimalPlaces = -1 the digits shown for a numeric value are
\* the digits of the exact product of the value and the multiplier.
C12_KeepAllIsExact ==
    (options.decimalPlaces = KeepAll /\ IsNumeric(val)) =>
        DigitsOf(out.shown.s)
            = PlainDigits(Scale(Normalize(val).numVal, options.multiplier))

\* C13: the text shown for a numeric value, formatted again under the same
\* options, is shown as the same text.
C13_FormatIdempotent ==
    IsNumeric(val) => formatValue(out.shown, options) = out.shown

\* C14: title casing a title-cased text changes nothing, and a text cell
\* shown with titleCase on is shown as a fixed point of toTitleCase.
C14_TitleCaseIdempotent ==
    val.type = "string" =>
        /\ toTitleCase(toTitleCase(val.s)) = toTitleCase(val.s)
        /\ (options.titleCase /\ ~IsNumeric(val)) =>
               toTitleCase(out.shown.s) = out.shown.s

\* what is left of a text after the trim, the strip of one pair of
\* parentheses and the removal of the commas
Remaining(s) ==
    LET t == Trim(s)
    IN  RemoveCommas(IF Len(t) >= 2 /\ t[1] = "(" /\ t[Len(t)] = ")"
                     THEN Trim(SubSeq(t, 2, Len(t) - 1))
                     ELSE t)

\* only white space and parentheses
OnlyBlanksAndParentheses(s) == \A i \in 1..Len(s) : s[i] \in {" ", "(", ")"}

C18_SelectionOrthogonal ==
    [][(options' # options \/ viewMode' # viewMode)
          => UNCHANGED <<activeTableIndex, selectedCells, effects>>]_vars

\* with cells selected in the second table, the list view is on and every
\* field of the options differs from its initial value
C18_Witness ==
    /\ activeTableIndex = 1
    /\ selectedCells = <<CellId(0, 1), CellId(0, 0)>>
    /\ viewMode = "LIST"
    /\ \A f \in DOMAIN options : options[f] # InitialOptions[f]

\* the cell of the id is a cell of the active table
InRange(id) ==
    /\ HasActiveTable
    /\ IdRow(id) < Len(activeTable.rows)
    /\ IdCol(id) < Len(activeTable.headers)

\* C19: in a settled view, where a click can be handled, every selected cell
\* is a cell of the active table, and copy-selection never reads a row the
\* table has not.
C19_SelectionInRange ==
    /\ Settled => \A i \in 1..Len(selectedCells) : InRange(selectedCells[i])
    /\ ~thrown

\* after a switch to the second table, cells of it were selected and copied
C19_Witness ==
    /\ lastOp.op = "copySelected"
    /\ data = <<TableA, TableB>>
    /\ activeTableIndex = 1
    /\ selectedCells = <<CellId(0, 2), CellId(0, 1)>>
    /\ written # Nothing

\* the headers of a table, as a set
HeaderSet(table) == {table.headers[i] : i \in 1..Len(table.headers)}

\* C16: every row of the extracted data maps the header at each position
\* to the value the response has at that position, or to "" when the row
\* has none, and its keys are exactly the headers of its table.
C16_AdapterKeyedByHeader ==
    ocrState.data # Null =>
        \A t \in 1..Len(response) :
            LET raw == response[t]
                table == ocrState.data.tables[t]
            IN  /\ table.headers = raw.headers
                /\ Len(table.rows) = Len(raw.rows)
                /\ \A r \in 1..Len(raw.rows) :
                       /\ DOMAIN table.rows[r] = HeaderSet(raw)
                       /\ \A i \in 1..Len(raw.headers) :
                              table.rows[r][raw.headers[i]]
                                  = IF raw.rows[r].values = Undefined
                                       \/ i > Len(raw.rows[r].values.items)
                                    THEN Str(<<>>)
                                    ELSE raw.rows[r].values.items[i]

\* C17: extracted data is present only without an error and not while
\* loading, the results view holds tables only while the data is present,
\* and a failed extraction leaves no data and sets the error.
C17_NoFormattingWithoutData ==
    /\ [](ocrState.data # Null =>
              ocrState.error = Null /\ ~ocrState.isLoading)
    /\ [](ocrState.data = Null => (data = <<>> /\ effects = {}))
    /\ [][ProcessRejected =>
              (ocrState'.data = Null /\ ocrState'.error # Null)]_vars

\* a table is shown, extracted from an image, with no error and no load
C17_Witness ==
    /\ ocrState.data # Null
    /\ data # <<>>
    /\ data = ocrState.data.tables
    /\ selectedImages # <<>>
    /\ ocrState.error = Null
    /\ ~ocrState.isLoading

\* C21: whenever an extraction result is displayed, it was extracted from
\* the images that are selected now: no change of the image list, while a
\* call is in flight or not, leaves or later installs a result of an older
\* list.
C21_ResultOfSelectedImages ==
    ocrState.data # Null => imageInputs = selectedImages

\* C22: when the clipboard write of a copy of the selection resolves, only
\* cells of that copy leave the selection: a cell selected since the copy
\* began, in the same table or after a switch of table, stays selected.
C22_ResolveKeepsLaterCells ==
    [][(ClipboardResolved /\ pending = "selected") =>
          \A i \in 1..Len(selectedCells) :
              ~Has(copiedIds, selectedCells[i]) =>
                  Has(selectedCells', selectedCells[i])]_vars

=============================================================================
